---- MODULE Spec2Model ----
(***************************************************************************)
(* A model of neuralnet_pytorch/layers/abstract.py: the shape-aware        *)
(* module layer (Lambda, wrapper, Sequential, the fan-out composers and    *)
(* the capability views of _LayerMethod).                                  *)
(*                                                                         *)
(* Encoding of Python values.                                              *)
(*   - A dimension is a natural number; the dynamic marker (a None entry   *)
(*     of a shape) is Dyn = 0, sizes are positive.                         *)
(*   - A shape is a sequence of dimensions.  Python indexes from 0, TLA+   *)
(*     from 1: index k of the source is index k+1 here.                    *)
(*   - An optional value (a shape that may be None) is a sequence of       *)
(*     length 0 (None) or 1 (the value): NoneV, Some(v).                   *)
(***************************************************************************)
EXTENDS Integers, Sequences, FiniteSets, TLC

\* ------------------------------------------------------------------ bounds
MaxRank == 2
MaxSize == 2
MaxTracked == 2

\* ---------------------------------------------------------- Python values
Dyn == 0
NoneV == <<>>
Some(v) == <<v>>
IsNone(o) == Len(o) = 0
Val(o) == o[1]

Sizes == 1..MaxSize
Dims == {Dyn} \cup Sizes
Shapes == UNION {[1..n -> Dims] : n \in 0..MaxRank}
OptShapes == {NoneV} \cup {Some(s) : s \in Shapes}

Reverse(s) == [k \in 1..Len(s) |-> s[Len(s) + 1 - k]]

\* ------------------------------------------------------------------- state
\* A Lambda or wrapper-made module: its declared shapes, its computation, its
\* mode and its persisted parameters and buffers.
VARIABLES input_shape, output_shape_tmp, func, training, state_dict

\* A Sequential: its _modules (name and module, in insertion order), its
\* declared input_shape, and what each module that may be a child declares.
VARIABLES modules, seq_input_shape, child_input_shape, child_output_shape

\* A fan-out composer: its class, the items it was constructed from, its
\* _modules and its declared input_shape.
VARIABLES fan_class, items, fan_modules, fan_input_shape

\* The module instances constructed so far (a module is named by its position)
\* and the weight file last written by save.
VARIABLES objects, file

\* The last operation performed, its arguments and what it returned or raised.
VARIABLES lastOp, arg, ret

varsA == <<input_shape, output_shape_tmp, func, training, state_dict>>
varsB == <<modules, seq_input_shape, child_input_shape, child_output_shape>>
varsC == <<fan_class, items, fan_modules, fan_input_shape>>
varsD == <<objects, file>>
vars == <<varsA, varsB, varsC, varsD, lastOp, arg, ret>>

NoArg == <<>>

\* ================================================================ part A
\* Lambda (lines 430-512) and the class made by wrapper (lines 345-427).

\* The computations a Lambda or a wrapper-made module may hold.  Each is given
\* by what it does to the shape of its input and to the module's buffers.
Funcs == {"relu", "sum_last", "sum_all", "transpose", "unsqueeze", "batchnorm"}

\* Shape of func's result on a tensor of concrete shape s.
OutShape(f, s) ==
    CASE f = "relu"      -> s
      [] f = "batchnorm" -> s
      [] f = "sum_last"  -> IF Len(s) = 0 THEN s ELSE SubSeq(s, 1, Len(s) - 1)
      [] f = "sum_all"   -> <<>>
      [] f = "transpose" -> Reverse(s)
      [] f = "unsqueeze" -> Append(s, 1)

EmptyDict == [n \in {} |-> 0]

\* The buffers registered by the computation at construction.
InitialState(f) ==
    IF f = "batchnorm" THEN [num_batches_tracked |-> 0] ELSE EmptyDict

\* Executing the module: a normalisation layer in training mode updates its
\* running statistics; every other computation leaves the buffers alone.
ForwardEffect(f, train, sd) ==
    IF f = "batchnorm" /\ train
    THEN [sd EXCEPT !.num_batches_tracked = @ + 1]
    ELSE sd

CanForward(f, sd) == f = "batchnorm" => sd.num_batches_tracked < MaxTracked

\* none_indices = [k for k in range(len(input_shape)) if input_shape[k] is None]
RECURSIVE none_indices_from(_, _)
none_indices_from(s, k) ==
    IF k > Len(s) THEN <<>>
    ELSE IF s[k] = Dyn THEN <<k>> \o none_indices_from(s, k + 1)
    ELSE none_indices_from(s, k + 1)

none_indices(s) == none_indices_from(s, 1)

\* shape = [1 if s is None else s for s in input_shape]
DummyShape(s) == [k \in 1..Len(s) |-> IF s[k] = Dyn THEN 1 ELSE s[k]]

\* MarkDynamic with the loop forgotten: the observed shape is returned as is.
MarkDynamicSkipped(out, idx) ==
    [exc |-> "none", val |-> Some(out)]

\* for k in none_indices: output_shape[k] = None
\* (a list assignment past the end raises IndexError).
RECURSIVE MarkDynamic(_, _)
MarkDynamic(out, idx) ==
    IF Len(idx) = 0 THEN [exc |-> "none", val |-> Some(out)]
    ELSE IF Head(idx) > Len(out) THEN [exc |-> "IndexError", val |-> NoneV]
    ELSE MarkDynamic([out EXCEPT ![Head(idx)] = Dyn], Tail(idx))

\* The body of the output_shape property: the value returned (or the exception
\* raised), the number of executions of the computation, and the buffers after.
output_shape(ishape, otmp, f, train, sd) ==
    IF IsNone(ishape) /\ IsNone(otmp)
    THEN [exc |-> "none", val |-> NoneV, execs |-> 0, sd |-> sd]
    ELSE IF ~IsNone(otmp)
    THEN [exc |-> "none", val |-> otmp, execs |-> 0, sd |-> sd]
    ELSE LET dummy == OutShape(f, DummyShape(Val(ishape)))
             r == MarkDynamic(dummy, none_indices(Val(ishape)))
         IN [exc |-> r.exc, val |-> r.val, execs |-> 1,
             sd |-> ForwardEffect(f, train, sd)]

\* utils.validate, which decorates every output_shape: None stays None, a shape
\* comes back as the tuple of its entries.
validate(o) == IF IsNone(o) THEN NoneV ELSE Some([k \in 1..Len(Val(o)) |-> Val(o)[k]])

NoRet == [exc |-> "none", val |-> NoneV, execs |-> 0]

\* No Sequential is under study.
NoSequential ==
    /\ modules = <<>>
    /\ seq_input_shape = NoneV
    /\ child_input_shape = <<>>
    /\ child_output_shape = <<>>

NoFile == [module |-> 0, dict |-> <<>>]

\* No module tree is under study.
NoObjects ==
    /\ objects = <<>>
    /\ file = NoFile

\* No fan-out composer is under study.
NoFanOut ==
    /\ fan_class = "none"
    /\ items = <<>>
    /\ fan_modules = <<>>
    /\ fan_input_shape = <<>>

InitA ==
    /\ input_shape \in OptShapes
    /\ output_shape_tmp \in OptShapes
    /\ func \in Funcs
    /\ training = TRUE
    /\ state_dict = InitialState(func)
    /\ lastOp = "init"
    /\ arg = NoArg
    /\ ret = NoRet
    /\ NoSequential
    /\ NoFanOut
    /\ NoObjects

\* Reading the output_shape property.
ReadOutputShape ==
    /\ (IsNone(output_shape_tmp) /\ ~IsNone(input_shape)) => CanForward(func, state_dict)
    /\ LET r == output_shape(input_shape, output_shape_tmp, func, training, state_dict)
       IN /\ ret' = [exc |-> r.exc, val |-> validate(r.val), execs |-> r.execs]
          /\ state_dict' = r.sd
    /\ lastOp' = "output_shape"
    /\ arg' = NoArg
    /\ UNCHANGED <<input_shape, output_shape_tmp, func, training, varsB, varsC, varsD>>

\* An ordinary call of the module on a tensor of concrete shape s.
Forward(s) ==
    /\ CanForward(func, state_dict)
    /\ ret' = [exc |-> "none", val |-> Some(OutShape(func, s)), execs |-> 1]
    /\ state_dict' = ForwardEffect(func, training, state_dict)
    /\ lastOp' = "forward"
    /\ arg' = s
    /\ UNCHANGED <<input_shape, output_shape_tmp, func, training, varsB, varsC, varsD>>

\* Switching the module to inference mode (what load does with eval=True).
Eval ==
    /\ training
    /\ training' = FALSE
    /\ lastOp' = "eval"
    /\ arg' = NoArg
    /\ ret' = NoRet
    /\ UNCHANGED <<input_shape, output_shape_tmp, func, state_dict, varsB, varsC, varsD>>

NextA ==
    \/ ReadOutputShape
    \/ \E s \in [1..1 -> Sizes] : Forward(s)
    \/ Eval

SpecShape == InitA /\ [][NextA]_vars

\* The shape of the zero tensor the claims speak of: input_shape with every
\* dynamic dimension replaced by 1.
ZeroTensorShape == [k \in 1..Len(Val(input_shape)) |-> IF Val(input_shape)[k] = Dyn THEN 1 ELSE Val(input_shape)[k]]

Observed == OutShape(func, ZeroTensorShape)

Executes == ~IsNone(input_shape) /\ IsNone(output_shape_tmp)

DynamicIndexInRange == \A k \in 1..Len(Val(input_shape)) : Val(input_shape)[k] = Dyn => k <= Len(Observed)

\* C1 (as stated): after a read of output_shape, the result is None when both
\* declared shapes are None; the declared output_shape, with no execution, when
\* one was declared; otherwise the computation ran once on the zero tensor and
\* the result is the observed shape with the dynamic marker at every index that
\* is dynamic in input_shape and the observed size at every other index.
C1_Original ==
    lastOp = "output_shape" =>
        /\ ret.exc = "none"
        /\ (IsNone(input_shape) /\ IsNone(output_shape_tmp)) => (IsNone(ret.val) /\ ret.execs = 0)
        /\ ~IsNone(output_shape_tmp) => (ret.val = output_shape_tmp /\ ret.execs = 0)
        /\ Executes =>
              /\ ret.execs = 1
              /\ ~IsNone(ret.val)
              /\ Len(Val(ret.val)) = Len(Observed)
              /\ \A k \in 1..Len(Val(input_shape)) : Val(input_shape)[k] = Dyn =>
                     (k <= Len(Val(ret.val)) /\ Val(ret.val)[k] = Dyn)
              /\ \A k \in 1..Len(Observed) :
                     (k > Len(Val(input_shape)) \/ Val(input_shape)[k] # Dyn) => Val(ret.val)[k] = Observed[k]

\* C1 (amended): the same rule, the third case holding when every dynamic index
\* of input_shape is an index of the observed shape; when one is not, the read
\* raises IndexError after the one execution and returns no shape.
C1_OutputShapeRule ==
    lastOp = "output_shape" =>
        /\ (IsNone(input_shape) /\ IsNone(output_shape_tmp)) =>
              (ret.exc = "none" /\ IsNone(ret.val) /\ ret.execs = 0)
        /\ ~IsNone(output_shape_tmp) =>
              (ret.exc = "none" /\ ret.val = output_shape_tmp /\ ret.execs = 0)
        /\ (Executes /\ DynamicIndexInRange) =>
              /\ ret.exc = "none"
              /\ ret.execs = 1
              /\ ~IsNone(ret.val)
              /\ Len(Val(ret.val)) = Len(Observed)
              /\ \A k \in 1..Len(Observed) :
                     Val(ret.val)[k] = IF k <= Len(Val(input_shape)) /\ Val(input_shape)[k] = Dyn
                                       THEN Dyn ELSE Observed[k]
        /\ (Executes /\ ~DynamicIndexInRange) =>
              (ret.exc = "IndexError" /\ IsNone(ret.val) /\ ret.execs = 1)

\* A read that executed the computation on an input_shape with a dynamic
\* dimension and a fixed one, and returned a shape.
C1_Witness ==
    /\ lastOp = "output_shape"
    /\ Executes
    /\ ret.exc = "none"
    /\ \E j, k \in 1..Len(Val(input_shape)) : Val(input_shape)[j] = Dyn /\ Val(input_shape)[k] > 1
    /\ \E k \in 1..Len(Val(ret.val)) : Val(ret.val)[k] > 1

\* C8: a read of output_shape leaves every persisted parameter and buffer
\* value of the module as it was.
C8_ReadLeavesStateUnchanged ==
    [][lastOp' = "output_shape" => state_dict' = state_dict]_vars

\* ================================================================ part B
\* Sequential (lines 298-342).
MaxChildren == 3

\* The module instances a Sequential may be built from.  The same instance may
\* be passed more than once: nn.Sequential registers it under each position.
ChildIds == {1, 2, 3}

\* What child c may declare as its input_shape and report as its output_shape.
ChildShapes(c) == {NoneV, Some(<<Dyn, c>>)}

\* What the three modules may declare or report, module by module.
ChildShapeMaps == {<<a, b, c>> : a \in ChildShapes(1), b \in ChildShapes(2), c \in ChildShapes(3)}

\* _modules after Sequential(*args): args[i] registered under the name str(i).
Registered(args) == [k \in 1..Len(args) |-> [name |-> k - 1, mod |-> args[k]]]

ArgLists == UNION {[1..n -> ChildIds] : n \in 0..MaxChildren}

\* ---- Python list indexing and slicing (modules[start], modules[idx]).
\* A slice bound is None or an integer.
SliceBounds == {NoneV} \cup {Some(i) : i \in -(MaxChildren + 1)..(MaxChildren + 1)}
SliceSteps == {NoneV, Some(1), Some(2), Some(-1)}

StepOf(idx) == IF IsNone(idx.step) THEN 1 ELSE Val(idx.step)

\* A bound clamped as list slicing clamps it.
Clamp(n, v, step) ==
    IF v < 0
    THEN (IF v + n < 0 THEN (IF step < 0 THEN -1 ELSE 0) ELSE v + n)
    ELSE (IF v >= n THEN (IF step < 0 THEN n - 1 ELSE n) ELSE v)

SliceStart(n, idx) ==
    IF IsNone(idx.start) THEN (IF StepOf(idx) < 0 THEN n - 1 ELSE 0)
    ELSE Clamp(n, Val(idx.start), StepOf(idx))

SliceStop(n, idx) ==
    IF IsNone(idx.stop) THEN (IF StepOf(idx) < 0 THEN -1 ELSE n)
    ELSE Clamp(n, Val(idx.stop), StepOf(idx))

RECURSIVE SliceRange(_, _, _)
SliceRange(i, stop, step) ==
    IF (step > 0 /\ i < stop) \/ (step < 0 /\ i > stop)
    THEN <<i>> \o SliceRange(i + step, stop, step)
    ELSE <<>>

\* The 0-based positions list[idx] selects from a list of length n, in the
\* order of the resulting list.
SliceIndices(n, idx) == SliceRange(SliceStart(n, idx), SliceStop(n, idx), StepOf(idx))

\* modules[idx] for a slice idx.
ListSlice(l, idx) ==
    LET sel == SliceIndices(Len(l), idx)
    IN [k \in 1..Len(sel) |-> l[sel[k] + 1]]

\* modules[i] for an integer i: the 1-based position, or 0 for IndexError.
ListIndex(n, i) ==
    IF i >= 0 /\ i < n THEN i + 1
    ELSE IF i < 0 /\ i >= -n THEN n + i + 1
    ELSE 0

\* start = idx.start if idx.start else 0
getitem_start(idx) == IF IsNone(idx.start) \/ Val(idx.start) = 0 THEN 0 ELSE Val(idx.start)

NoSeq == [modules |-> <<>>, input_shape |-> NoneV]

\* Sequential.__getitem__ for a slice:
\*   Sequential(OrderedDict(modules[idx]), input_shape=modules[start][1].input_shape)
getitem(mods, idx) ==
    LET pos == ListIndex(Len(mods), getitem_start(idx))
    IN IF pos = 0 THEN [exc |-> "IndexError", val |-> NoSeq]
       ELSE [exc |-> "none",
             val |-> [modules |-> ListSlice(mods, idx),
                      input_shape |-> child_input_shape[mods[pos].mod]]]

\* list(self.children()): each distinct module once, in order of first
\* registration.
RECURSIVE children(_)
children(mods) ==
    IF Len(mods) = 0 THEN <<>>
    ELSE LET front == children(SubSeq(mods, 1, Len(mods) - 1))
             last == mods[Len(mods)].mod
         IN IF \E k \in 1..Len(front) : front[k] = last THEN front ELSE Append(front, last)

\* Sequential.output_shape.
seq_output_shape(ishape, mods) ==
    IF IsNone(ishape) THEN NoneV
    ELSE LET layers == children(mods)
         IN IF Len(layers) > 0 THEN child_output_shape[layers[Len(layers)]] ELSE ishape

\* ---- Values that flow through a chain.  A child is an opaque callable: its
\* result on an input is the input's history extended by the call.
Inputs == {1, 2}
ExtraArgs == {<<>>, <<7>>}
ExtraKwargs == {<<>>, <<8>>}

Tensor(x) == [base |-> x, path |-> <<>>]
Call(m, v, a, kw) == [base |-> v.base, path |-> Append(v.path, [mod |-> m, args |-> a, kwargs |-> kw])]

\* Sequential.forward with the extra arguments given to the first stage only.
RECURSIVE seq_forward_args_first_only(_, _, _, _, _)
seq_forward_args_first_only(mods, k, input, a, kw) ==
    IF k > Len(mods) THEN [out |-> input, calls |-> <<>>]
    ELSE LET aa == IF k = 1 THEN a ELSE <<>>
             r == seq_forward_args_first_only(mods, k + 1, Call(mods[k].mod, input, aa, kw), a, kw)
         IN [out |-> r.out,
             calls |-> <<[mod |-> mods[k].mod, input |-> input, args |-> aa, kwargs |-> kw]>> \o r.calls]

\* Sequential.forward from the k-th entry of _modules.values() on:
\*   for module in self._modules.values(): input = module(input, *args, **kwargs)
\* The value returned and the calls made, in order.
RECURSIVE seq_forward(_, _, _, _, _)
seq_forward(mods, k, input, a, kw) ==
    IF k > Len(mods) THEN [out |-> input, calls |-> <<>>]
    ELSE LET r == seq_forward(mods, k + 1, Call(mods[k].mod, input, a, kw), a, kw)
         IN [out |-> r.out,
             calls |-> <<[mod |-> mods[k].mod, input |-> input, args |-> a, kwargs |-> kw]>> \o r.calls]

NoLambda ==
    /\ input_shape = NoneV
    /\ output_shape_tmp = NoneV
    /\ func = "relu"
    /\ training = TRUE
    /\ state_dict = EmptyDict

\* A Sequential built from any list of modules, whose children declare
\* input shapes.
InitSlice ==
    /\ NoLambda
    /\ \E args \in ArgLists : modules = Registered(args)
    /\ seq_input_shape \in {NoneV, Some(<<Dyn, 2>>)}
    /\ child_input_shape \in ChildShapeMaps
    /\ child_output_shape = [c \in ChildIds |-> NoneV]
    /\ lastOp = "init"
    /\ arg = NoArg
    /\ ret = NoRet
    /\ NoFanOut
    /\ NoObjects

\* s[start:stop:step]
GetItem(idx) ==
    /\ lastOp = "init"
    /\ lastOp' = "getitem"
    /\ arg' = idx
    /\ ret' = getitem(modules, idx)
    /\ UNCHANGED <<varsA, varsB, varsC, varsD>>

\* The caller drops the result; the composer is as it was built.
Discard ==
    /\ lastOp # "init"
    /\ lastOp' = "init"
    /\ arg' = NoArg
    /\ ret' = NoRet
    /\ UNCHANGED <<varsA, varsB, varsC, varsD>>

NextSlice ==
    \/ \E b, e \in SliceBounds, st \in SliceSteps : GetItem([start |-> b, stop |-> e, step |-> st])
    \/ Discard

SpecSlice == InitSlice /\ [][NextSlice]_vars

\* A Sequential built from any list of modules, whose children report
\* output shapes.
InitSeq ==
    /\ NoLambda
    /\ \E args \in ArgLists : modules = Registered(args)
    /\ seq_input_shape \in {NoneV, Some(<<Dyn, 2>>)}
    /\ child_input_shape = [c \in ChildIds |-> NoneV]
    /\ child_output_shape \in ChildShapeMaps
    /\ lastOp = "init"
    /\ arg = NoArg
    /\ ret = NoRet
    /\ NoFanOut
    /\ NoObjects

SeqOutputShape ==
    /\ lastOp = "init"
    /\ lastOp' = "output_shape"
    /\ arg' = NoArg
    /\ ret' = validate(seq_output_shape(seq_input_shape, modules))
    /\ UNCHANGED <<varsA, varsB, varsC, varsD>>

SeqForward(x, a, kw) ==
    /\ lastOp = "init"
    /\ lastOp' = "forward"
    /\ arg' = [input |-> Tensor(x), args |-> a, kwargs |-> kw]
    /\ ret' = seq_forward(modules, 1, Tensor(x), a, kw)
    /\ UNCHANGED <<varsA, varsB, varsC, varsD>>

NextSeq ==
    \/ SeqOutputShape
    \/ \E x \in Inputs, a \in ExtraArgs, kw \in ExtraKwargs : SeqForward(x, a, kw)
    \/ Discard

SpecSeq == InitSeq /\ [][NextSeq]_vars

\* ---- claims about Sequential

\* The 0-based positions a slice selects, as a set, and the same in their
\* original (ascending) order.
SelectedSet(idx) == {SliceIndices(Len(modules), idx)[k] : k \in 1..Len(SliceIndices(Len(modules), idx))}

RECURSIVE Ascending(_, _)
Ascending(S, from) ==
    IF \A i \in S : i < from THEN <<>>
    ELSE IF from \in S THEN <<from>> \o Ascending(S, from + 1)
    ELSE Ascending(S, from + 1)

SelectedInOrder(idx) ==
    LET pos == Ascending(SelectedSet(idx), 0)
    IN [k \in 1..Len(pos) |-> modules[pos[k] + 1]]

\* C2: slicing with any slice yields a new Sequential whose children are the
\* selected children in their original order and whose input_shape is the
\* input_shape of the first selected child (stated for the slices that select
\* at least one child, where there is a first selected child).
C2_SliceClaim ==
    (lastOp = "getitem" /\ Len(SelectedInOrder(arg)) > 0) =>
        /\ ret.exc = "none"
        /\ ret.val.modules = SelectedInOrder(arg)
        /\ ret.val.input_shape = child_input_shape[SelectedInOrder(arg)[1].mod]

\* C9: the output_shape of a Sequential is None when its own input_shape is
\* None; otherwise its own input_shape when it has no children, and the
\* output_shape of its last child when it has one.
C9_SeqOutputShapeClaim ==
    lastOp = "output_shape" =>
        ret = IF IsNone(seq_input_shape) THEN NoneV
              ELSE IF Len(modules) = 0 THEN seq_input_shape
              ELSE child_output_shape[modules[Len(modules)].mod]

\* C10: forward(x, *args, **kwargs) calls every entry of the chain once, in
\* insertion order, the first on x and each later one on the result of the one
\* before, all with the same extra arguments, and returns the last result (x
\* itself when there is no child).
C10_ForwardChain ==
    lastOp = "forward" =>
        /\ Len(ret.calls) = Len(modules)
        /\ \A k \in 1..Len(modules) :
              /\ ret.calls[k].mod = modules[k].mod
              /\ ret.calls[k].args = arg.args
              /\ ret.calls[k].kwargs = arg.kwargs
              /\ ret.calls[k].input =
                    IF k = 1 THEN arg.input
                    ELSE Call(ret.calls[k - 1].mod, ret.calls[k - 1].input, arg.args, arg.kwargs)
        /\ ret.out.base = arg.input.base
        /\ ret.out.path = [k \in 1..Len(modules) |->
                              [mod |-> modules[k].mod, args |-> arg.args, kwargs |-> arg.kwargs]]

\* A chain of three different modules run with an extra positional and an
\* extra keyword argument.
C10_Witness ==
    /\ lastOp = "forward"
    /\ Len(modules) = 3
    /\ Cardinality({modules[k].mod : k \in 1..3}) = 3
    /\ arg.args # <<>>
    /\ arg.kwargs # <<>>
    /\ Len(ret.out.path) = 3

\* ================================================================ part C
\* MultiSingleInputModule (lines 202-254), MultiMultiInputModule (257-269).
MaxItems == 3

\* An item is a module instance or a constant tensor.
Tensors == {1}
Items == {[t |-> "module", id |-> c] : c \in ChildIds} \cup {[t |-> "tensor", id |-> c] : c \in Tensors}
ItemLists == UNION {[1..n -> Items] : n \in 0..MaxItems}

\* item.shape of a constant tensor.
TensorShape(t) == <<t, t + 1>>

\* The value of a constant tensor.
Const(t) == [base |-> 100 + t, path |-> <<>>]

\* The Lambda made for the constant passed as the p-th item: a new instance
\* each time, declared with the tensor's shape, returning the tensor.
ConstLambda(p, t) == [t |-> "lambda", id |-> p, const |-> t]

\* named_children(): the entries of _modules, an instance already yielded
\* being skipped.
RECURSIVE named_children(_)
named_children(mods) ==
    IF Len(mods) = 0 THEN <<>>
    ELSE LET front == SubSeq(mods, 1, Len(mods) - 1)
             last == mods[Len(mods)]
         IN IF \E k \in 1..Len(front) : front[k].mod = last.mod
            THEN named_children(front)
            ELSE Append(named_children(front), last)

\* add_module(name, module): _modules[name] = module, a name already present
\* keeping its place.
add_module(mods, name, m) ==
    IF \E k \in 1..Len(mods) : mods[k].name = name
    THEN [k \in 1..Len(mods) |-> IF mods[k].name = name THEN [name |-> name, mod |-> m] ELSE mods[k]]
    ELSE Append(mods, [name |-> name, mod |-> m])

\* foo(item) of __init__, for the p-th item (lines 227-235).
foo(self, p, item) ==
    LET idx == Len(named_children(self.modules))
    IN IF item.t = "module"
       THEN [modules |-> add_module(self.modules, [prefix |-> "module", idx |-> idx], item),
             input_shape |-> Append(self.input_shape, child_output_shape[item.id])]
       ELSE [modules |-> add_module(self.modules, [prefix |-> "tensor", idx |-> idx], ConstLambda(p, item.id)),
             input_shape |-> Append(self.input_shape, Some(TensorShape(item.id)))]

\* list(map(foo, modules_or_tensors)) on the first n items.
RECURSIVE construct(_, _)
construct(its, n) ==
    IF n = 0 THEN [modules |-> <<>>, input_shape |-> <<>>]
    ELSE foo(construct(its, n - 1), n, its[n])

\* MultiSingleInputModule.__init__.
MultiSingleInputModule_init(its) == construct(its, Len(its))

\* Calling a child: a module is an opaque callable, the Lambda of a constant
\* returns the constant whatever it is given.
CallChild(m, v, a, kw) == IF m.t = "lambda" THEN Const(m.const) ELSE Call(m.id, v, a, kw)

\* MultiSingleInputModule.forward:
\*   [module(input, *args, **kwargs) for name, module in self.named_children()]
multi_single_forward(mods, input, a, kw) ==
    LET ch == named_children(mods)
    IN [exc |-> "none", val |-> [k \in 1..Len(ch) |-> CallChild(ch[k].mod, input, a, kw)]]

\* MultiMultiInputModule.forward over the children from the k-th on, n inputs
\* of input having been taken by next(input_it):
\*   module(next(input_it), **kwargs) if name.startswith('module') else module()
RECURSIVE multi_multi_from(_, _, _, _, _)
multi_multi_from(ch, k, input, n, kw) ==
    IF k > Len(ch) THEN [exc |-> "none", val |-> <<>>]
    ELSE IF ch[k].name.prefix = "module"
    THEN IF n >= Len(input) THEN [exc |-> "StopIteration", val |-> <<>>]
         ELSE LET r == multi_multi_from(ch, k + 1, input, n + 1, kw)
              IN IF r.exc # "none" THEN r
                 ELSE [exc |-> "none", val |-> <<CallChild(ch[k].mod, input[n + 1], <<>>, kw)>> \o r.val]
    ELSE LET r == multi_multi_from(ch, k + 1, input, n, kw)
         IN IF r.exc # "none" THEN r
            ELSE [exc |-> "none", val |-> <<Const(ch[k].mod.const)>> \o r.val]

multi_multi_forward(mods, input, kw) == multi_multi_from(named_children(mods), 1, input, 0, kw)

InputTuples == UNION {[1..n -> {Tensor(x) : x \in Inputs \cup {3}}] : n \in 0..MaxItems}

InitFan ==
    /\ NoLambda
    /\ modules = <<>>
    /\ seq_input_shape = NoneV
    /\ child_input_shape = [c \in ChildIds |-> NoneV]
    /\ child_output_shape \in {f \in ChildShapeMaps : \A c \in ChildIds : ~IsNone(f[c])}
    /\ fan_class \in {"MultiSingleInputModule", "MultiMultiInputModule"}
    /\ items \in ItemLists
    /\ fan_modules = MultiSingleInputModule_init(items).modules
    /\ fan_input_shape = MultiSingleInputModule_init(items).input_shape
    /\ lastOp = "init"
    /\ arg = NoArg
    /\ ret = NoRet
    /\ NoObjects

\* forward(x, *args, **kwargs) of a same-input fan-out composer.
MultiSingleForward(x, a, kw) ==
    /\ fan_class = "MultiSingleInputModule"
    /\ lastOp = "init"
    /\ lastOp' = "forward"
    /\ arg' = [input |-> Tensor(x), args |-> a, kwargs |-> kw]
    /\ ret' = multi_single_forward(fan_modules, Tensor(x), a, kw)
    /\ UNCHANGED <<varsA, varsB, varsC, varsD>>

\* forward(x1, ..., xn, **kwargs) of a distinct-input fan-out composer.
MultiMultiForward(xs, kw) ==
    /\ fan_class = "MultiMultiInputModule"
    /\ lastOp = "init"
    /\ lastOp' = "forward"
    /\ arg' = [input |-> xs, kwargs |-> kw]
    /\ ret' = multi_multi_forward(fan_modules, xs, kw)
    /\ UNCHANGED <<varsA, varsB, varsC, varsD>>

NextFan ==
    \/ \E x \in Inputs, a \in ExtraArgs, kw \in ExtraKwargs : MultiSingleForward(x, a, kw)
    \/ \E xs \in InputTuples, kw \in ExtraKwargs : MultiMultiForward(xs, kw)
    \/ Discard

SpecFan == InitFan /\ [][NextFan]_vars

\* ---- claims about the fan-out composers

\* What item i yields when given v.
ItemResult(i, v, a, kw) ==
    IF items[i].t = "module" THEN Call(items[i].id, v, a, kw) ELSE Const(items[i].id)

\* C5: a same-input fan-out composer built from n items has an input_shape of
\* n entries, entry i the output shape of item i (the shape of a constant), and
\* forward(x) returns n results in construction order, result i being item i
\* applied to x (the constant itself for a constant).
C5_FanOutClaim ==
    fan_class = "MultiSingleInputModule" =>
        /\ Len(fan_input_shape) = Len(items)
        /\ \A i \in 1..Len(items) :
              fan_input_shape[i] = IF items[i].t = "module" THEN child_output_shape[items[i].id]
                                   ELSE Some(TensorShape(items[i].id))
        /\ lastOp = "forward" =>
              /\ ret.exc = "none"
              /\ Len(ret.val) = Len(items)
              /\ \A i \in 1..Len(items) : ret.val[i] = ItemResult(i, arg.input, arg.args, arg.kwargs)

\* The number of non-constant items among the first i.
NonConstUpTo(i) == Cardinality({j \in 1..i : items[j].t = "module"})

\* C6: forward(x1, ..., xn) of a distinct-input fan-out composer gives the
\* k-th non-constant child the k-th input, calls every constant-derived child
\* with no input and returns the results in construction order; it fails when
\* there are fewer inputs than non-constant children.
C6_DistinctInputClaim ==
    (fan_class = "MultiMultiInputModule" /\ lastOp = "forward") =>
        IF Len(arg.input) < NonConstUpTo(Len(items))
        THEN ret.exc # "none"
        ELSE /\ ret.exc = "none"
             /\ Len(ret.val) = Len(items)
             /\ \A i \in 1..Len(items) :
                   ret.val[i] = IF items[i].t = "module"
                                THEN Call(items[i].id, arg.input[NonConstUpTo(i)], <<>>, arg.kwargs)
                                ELSE Const(items[i].id)

\* ================================================================ part D
\* The capability views of _LayerMethod (lines 89-180) over a tree of modules.
MaxModules == 3

\* What a module registers itself: parameters (with their requires_grad flag)
\* first, then buffers, in registration order.
Param(n, g) == [name |-> n, kind |-> "param", requires_grad |-> g]
Buffer(n) == [name |-> n, kind |-> "buffer", requires_grad |-> FALSE]

Own(template) ==
    CASE template = "none"      -> <<>>
      [] template = "linear"    -> <<Param("weight", TRUE), Param("bias", TRUE)>>
      [] template = "frozen"    -> <<Param("weight", FALSE), Param("bias", TRUE)>>
      [] template = "batchnorm" -> <<Param("weight", TRUE), Param("bias", FALSE), Buffer("running_mean")>>

LeafTemplates == {"linear", "frozen", "batchnorm"}

\* The classes that override the views of _LayerMethod with the empty tuple.
FanClasses == {"MultiSingleInputModule", "MultiMultiInputModule", "SingleMultiInputModule"}

\* Lists of up to two existing modules; the same one may be listed twice.
KidLists == UNION {[1..n -> 1..Len(objects)] : n \in 0..2}

\* _modules of a fan-out composer constructed from the modules args: each is
\* registered under 'module%d' % len(list(self.children())).
RECURSIVE fan_registered(_, _)
fan_registered(args, n) ==
    IF n = 0 THEN <<>>
    ELSE LET sofar == fan_registered(args, n - 1)
         IN add_module(sofar, Len(named_children(sofar)), args[n])

ModulesOf(m) == objects[m].kids

\* list(self.children()) of module m.
RECURSIVE ChildrenFrom(_, _)
ChildrenFrom(kids, n) ==
    IF n = 0 THEN <<>>
    ELSE LET front == ChildrenFrom(kids, n - 1)
         IN IF \E k \in 1..Len(front) : front[k] = kids[n] THEN front ELSE Append(front, kids[n])

Children(m) == ChildrenFrom(ModulesOf(m), Len(ModulesOf(m)))

Concat(s, t) == s \o t

\* The engine's modules(): m, then the modules below each entry of _modules, a
\* module already listed being skipped.
RECURSIVE named_modules(_, _)
RECURSIVE named_modules_of_kids(_, _, _)
named_modules(m, memo) ==
    IF \E k \in 1..Len(memo) : memo[k] = m THEN memo
    ELSE named_modules_of_kids(ModulesOf(m), 1, Append(memo, m))

named_modules_of_kids(kids, k, memo) ==
    IF k > Len(kids) THEN memo
    ELSE named_modules_of_kids(kids, k + 1, named_modules(kids[k], memo))

\* The registered entries of module m of one kind, each with its owner.
OwnEntries(m, kind) ==
    LET own == Own(objects[m].own)
    IN SelectSeq([k \in 1..Len(own) |-> [owner |-> m, name |-> own[k].name, kind |-> own[k].kind,
                                          requires_grad |-> own[k].requires_grad]],
                 LAMBDA e : e.kind = kind)

RECURSIVE FlattenOwn(_, _, _)
FlattenOwn(ms, k, kind) ==
    IF k > Len(ms) THEN <<>> ELSE OwnEntries(ms[k], kind) \o FlattenOwn(ms, k + 1, kind)

\* self.parameters(): the parameters of m and of every module below it.
parameters(m) == FlattenOwn(named_modules(m, <<>>), 1, "param")

\* state_dict(): the parameters, then the buffers, of m, then the state of each
\* entry of _modules under the entry's name; a module registered under two
\* names is listed under both.
RECURSIVE state_dict_of(_, _)
RECURSIVE state_dict_of_kids(_, _, _)
state_dict_of(m, prefix) ==
    LET own == OwnEntries(m, "param") \o OwnEntries(m, "buffer")
    IN [k \in 1..Len(own) |-> [key |-> Append(prefix, own[k].name), owner |-> m, name |-> own[k].name]]
       \o state_dict_of_kids(m, 1, prefix)

state_dict_of_kids(m, k, prefix) ==
    IF k > Len(ModulesOf(m)) THEN <<>>
    ELSE state_dict_of(ModulesOf(m)[k], Append(prefix, k)) \o state_dict_of_kids(m, k + 1, prefix)

\* trainable without the requires_grad test.
trainable_unfiltered(m) ==
    IF objects[m].class \in FanClasses THEN <<>>
    ELSE parameters(m)

\* The trainable property: the override of the fan-out and fan-in composers,
\* else  [p for p in self.parameters() if p.requires_grad].
trainable(m) ==
    IF objects[m].class \in FanClasses THEN <<>>
    ELSE SelectSeq(parameters(m), LAMBDA p : p.requires_grad)

\* regularizable without the requires_grad test on the module's own weight.
RECURSIVE regularizable_unfiltered(_)
RECURSIVE regularizable_unfiltered_kids(_, _)
regularizable_unfiltered(m) ==
    IF objects[m].class \in FanClasses THEN <<>>
    ELSE SelectSeq(OwnEntries(m, "param"), LAMBDA p : p.name = "weight")
         \o regularizable_unfiltered_kids(Children(m), 1)

regularizable_unfiltered_kids(ch, k) ==
    IF k > Len(ch) THEN <<>>
    ELSE (IF objects[ch[k]].class # "Plain" THEN regularizable_unfiltered(ch[k]) ELSE <<>>)
         \o regularizable_unfiltered_kids(ch, k + 1)

\* regularizable without the override of the fan-out and fan-in composers:
\* a composer aggregates its children as any other module does.
RECURSIVE regularizable_inherited(_)
RECURSIVE regularizable_inherited_kids(_, _)
regularizable_inherited(m) ==
    SelectSeq(OwnEntries(m, "param"), LAMBDA p : p.name = "weight" /\ p.requires_grad)
    \o regularizable_inherited_kids(Children(m), 1)

regularizable_inherited_kids(ch, k) ==
    IF k > Len(ch) THEN <<>>
    ELSE (IF objects[ch[k]].class # "Plain" THEN regularizable_inherited(ch[k]) ELSE <<>>)
         \o regularizable_inherited_kids(ch, k + 1)

\* The regularizable property: the override of the fan-out and fan-in
\* composers, else the module's weight if it has one that requires grad, then
\* the regularizable of each child that has the property.
RECURSIVE regularizable(_)
RECURSIVE regularizable_of_children(_, _)
regularizable(m) ==
    IF objects[m].class \in FanClasses THEN <<>>
    ELSE SelectSeq(OwnEntries(m, "param"), LAMBDA p : p.name = "weight" /\ p.requires_grad)
         \o regularizable_of_children(Children(m), 1)

regularizable_of_children(ch, k) ==
    IF k > Len(ch) THEN <<>>
    ELSE (IF objects[ch[k]].class # "Plain" THEN regularizable(ch[k]) ELSE <<>>)
         \o regularizable_of_children(ch, k + 1)

\* The value a parameter or buffer of the saved module holds, and the value it
\* holds in a module freshly constructed with the same architecture.
Trained(e) == [tag |-> "trained", owner |-> e.owner, name |-> e.name]
Fresh(e) == [tag |-> "fresh", owner |-> e.owner, name |-> e.name]

\* The params property: the override of the fan-out and fan-in composers, else
\* tuple(self.state_dict().values()).
params(m) ==
    IF objects[m].class \in FanClasses THEN <<>>
    ELSE [k \in 1..Len(state_dict_of(m, <<>>)) |-> Trained(state_dict_of(m, <<>>)[k])]

\* utils.bulk_to_numpy: each tensor as a host array of the same values, and the
\* engine reading such an array back into a tensor.
bulk_to_numpy(ps) == [k \in 1..Len(ps) |-> [ndarray |-> ps[k]]]
from_numpy(a) == a.ndarray

Min(a, b) == IF a < b THEN a ELSE b

\* save: OrderedDict(zip(list(self.state_dict().keys()), params_np)).
save(m) ==
    LET keys == state_dict_of(m, <<>>)
        params_np == bulk_to_numpy(params(m))
    IN [k \in 1..Min(Len(keys), Len(params_np)) |-> [key |-> keys[k].key, val |-> params_np[k]]]

\* load into a freshly constructed module m: load_state_dict raises unless the
\* keys of the mapping are those of the module's state, and a failed load
\* changes nothing.
load(m, dict) ==
    LET sd == state_dict_of(m, <<>>)
        have == {dict[k].key : k \in 1..Len(dict)}
        want == {sd[k].key : k \in 1..Len(sd)}
    IN IF have # want
       THEN [exc |-> "RuntimeError", val |-> [k \in 1..Len(sd) |-> [key |-> sd[k].key, val |-> Fresh(sd[k])]]]
       ELSE [exc |-> "none",
             val |-> [k \in 1..Len(sd) |->
                        [key |-> sd[k].key,
                         val |-> from_numpy((CHOOSE e \in {dict[j] : j \in 1..Len(dict)} : e.key = sd[k].key).val)]]]

InitCap ==
    /\ NoLambda
    /\ NoSequential
    /\ NoFanOut
    /\ objects = <<>>
    /\ file = NoFile
    /\ lastOp = "init"
    /\ arg = NoArg
    /\ ret = NoRet

Construct(obj) ==
    /\ lastOp = "init"
    /\ Len(objects) < MaxModules
    /\ objects' = Append(objects, obj)
    /\ UNCHANGED <<varsA, varsB, varsC, file, lastOp, arg, ret>>

\* A wrapper-made module around a computation of the engine.
NewLeaf(template) == Construct([class |-> "Leaf", own |-> template, kids |-> <<>>])

\* A module of the engine used as it is, without the mixin.
NewPlain == Construct([class |-> "Plain", own |-> "linear", kids |-> <<>>])

\* A subclass of Module that holds a weight and a bias and has submodules.
NewModule(template, kids) ==
    /\ Len(kids) > 0
    /\ Construct([class |-> "Module", own |-> template, kids |-> kids])

NewSequential(kids) == Construct([class |-> "Sequential", own |-> "none", kids |-> kids])

NewFanOut(class, kids) ==
    LET reg == fan_registered(kids, Len(kids))
    IN Construct([class |-> class, own |-> "none", kids |-> [k \in 1..Len(reg) |-> reg[k].mod]])

NewSingleMulti(kid) ==
    Construct([class |-> "SingleMultiInputModule", own |-> "none", kids |-> <<kid>>])

\* The views are read on the module constructed last: a module never changes
\* once constructed, so every module is read while it is the last.
Self == Len(objects)

ReadView(name, value) ==
    /\ lastOp = "init"
    /\ Self > 0
    /\ objects[Self].class # "Plain"
    /\ lastOp' = name
    /\ arg' = Self
    /\ ret' = value
    /\ UNCHANGED <<varsA, varsB, varsC, varsD>>

ReadTrainable == ReadView("trainable", trainable(Self))
ReadRegularizable == ReadView("regularizable", regularizable(Self))
ReadParams == ReadView("params", params(Self))

Save ==
    /\ lastOp = "init"
    /\ Self > 0
    /\ objects[Self].class # "Plain"
    /\ file' = [module |-> Self, dict |-> save(Self)]
    /\ lastOp' = "save"
    /\ arg' = Self
    /\ ret' = NoRet
    /\ UNCHANGED <<varsA, varsB, varsC, objects>>

\* load(path) on a fresh module of the architecture of the module saved.
Load ==
    /\ lastOp = "init"
    /\ file # NoFile
    /\ lastOp' = "load"
    /\ arg' = file.module
    /\ ret' = load(file.module, file.dict)
    /\ UNCHANGED <<varsA, varsB, varsC, varsD>>

NextCap ==
    \/ \E t \in LeafTemplates : NewLeaf(t)
    \/ NewPlain
    \/ \E kids \in KidLists : NewModule("linear", kids)
    \/ \E kids \in KidLists : NewSequential(kids)
    \/ \E kids \in KidLists : NewFanOut("MultiSingleInputModule", kids)
    \/ \E kid \in 1..Len(objects) : NewSingleMulti(kid)
    \/ ReadTrainable
    \/ ReadRegularizable
    \/ ReadParams
    \/ Discard

SpecCap == InitCap /\ [][NextCap]_vars

NextSave ==
    \/ \E t \in LeafTemplates : NewLeaf(t)
    \/ \E kids \in KidLists : NewModule("linear", kids)
    \/ \E kids \in KidLists : NewSequential(kids)
    \/ \E c \in {"MultiSingleInputModule", "MultiMultiInputModule"}, kids \in KidLists : NewFanOut(c, kids)
    \/ \E kid \in 1..Len(objects) : NewSingleMulti(kid)
    \/ Save
    \/ Load
    \/ Discard

SpecSave == InitCap /\ [][NextSave]_vars

\* The three views read over trees that hold all three composers that
\* override them.
NextComposer ==
    \/ \E t \in LeafTemplates : NewLeaf(t)
    \/ \E kids \in KidLists : NewModule("linear", kids)
    \/ \E kids \in KidLists : NewSequential(kids)
    \/ \E c \in {"MultiSingleInputModule", "MultiMultiInputModule"}, kids \in KidLists : NewFanOut(c, kids)
    \/ \E kid \in 1..Len(objects) : NewSingleMulti(kid)
    \/ ReadTrainable
    \/ ReadRegularizable
    \/ ReadParams
    \/ Discard

SpecComposer == InitCap /\ [][NextComposer]_vars

\* ---- claims about the capability views

\* The modules reachable from m through _modules, m included.
RECURSIVE Reach(_)
Reach(m) == {m} \cup UNION {Reach(ModulesOf(m)[k]) : k \in 1..Len(ModulesOf(m))}

Elements(seq) == {seq[k] : k \in 1..Len(seq)}

NoRepeat(seq) == \A i, j \in 1..Len(seq) : i # j => seq[i] # seq[j]

\* The parameters (not the buffers) a module registers itself that require grad.
OwnTrainable(m) ==
    {[owner |-> m, name |-> Own(objects[m].own)[k].name, kind |-> "param", requires_grad |-> TRUE] :
        k \in {j \in 1..Len(Own(objects[m].own)) :
                 Own(objects[m].own)[j].kind = "param" /\ Own(objects[m].own)[j].requires_grad}}

\* C3 (as stated): the trainable view holds exactly the parameters the module
\* owns directly whose requires_grad flag is set, and none of its descendants'.
C3_Original ==
    lastOp = "trainable" => Elements(ret) = OwnTrainable(arg)

\* C3 (amended): the trainable view of a module that does not override it holds,
\* each once, exactly the parameters (never a buffer) whose requires_grad flag is
\* set of the module itself and of every module below it.
C3_TrainableRecurses ==
    (lastOp = "trainable" /\ objects[arg].class \notin FanClasses) =>
        /\ Elements(ret) = UNION {OwnTrainable(d) : d \in Reach(arg)}
        /\ NoRepeat(ret)
        /\ \A k \in 1..Len(ret) : ret[k].kind = "param" /\ ret[k].requires_grad

\* A trainable view read on a module that owns no parameter and has, two levels
\* below it, a module with a weight that requires grad, a frozen bias and a
\* buffer.
C3_Witness ==
    /\ lastOp = "trainable"
    /\ objects[arg].class = "Sequential"
    /\ \E c \in 1..Len(objects) : \E d \in 1..Len(objects) :
          /\ c # arg /\ d # c
          /\ c \in Elements(ModulesOf(arg))
          /\ d \in Elements(ModulesOf(c))
          /\ objects[d].own = "batchnorm"
          /\ [owner |-> d, name |-> "weight", kind |-> "param", requires_grad |-> TRUE] \in Elements(ret)

\* The modules visited by the mixin's rule from m, in the order visited: m, then
\* what is visited from each of its children in turn; nothing is visited below
\* a composer that overrides the view or from a module without the view.
RECURSIVE Visited(_)
RECURSIVE VisitedFrom(_, _)
Visited(m) ==
    IF objects[m].class \in FanClasses \/ objects[m].class = "Plain" THEN <<>>
    ELSE <<m>> \o VisitedFrom(Children(m), 1)

VisitedFrom(ch, k) == IF k > Len(ch) THEN <<>> ELSE Visited(ch[k]) \o VisitedFrom(ch, k + 1)

HasTrainableWeight(m) ==
    \E k \in 1..Len(Own(objects[m].own)) :
        Own(objects[m].own)[k].name = "weight" /\ Own(objects[m].own)[k].requires_grad

C4_RoundTripClaim ==
    lastOp = "load" =>
        /\ ret.exc = "none"
        /\ ret.val = [k \in 1..Len(state_dict_of(arg, <<>>)) |->
                         [key |-> state_dict_of(arg, <<>>)[k].key, val |-> Trained(state_dict_of(arg, <<>>)[k])]]

\* The modules of the branches of composer c: its children and all below them.
Branches(c) == UNION {Reach(ModulesOf(c)[k]) : k \in 1..Len(ModulesOf(c))}

\* The fan-out and fan-in composers held somewhere below module m.
ComposersBelow(m) == {c \in Reach(m) \ {m} : objects[c].class \in FanClasses}

\* The params, trainable and regularizable views of a fan-out or fan-in
\* composer are empty, whatever its children hold.
ComposerViewsEmpty ==
    (lastOp \in {"params", "trainable", "regularizable"} /\ objects[arg].class \in FanClasses) =>
        ret = <<>>

\* C11 (as stated): a same-input fan-out, distinct-input fan-out or fan-in
\* composer reports empty params, trainable and regularizable views, however
\* many parameters its children hold, and the regularizable view of a module
\* enclosing a composer holds no parameter of a module of that composer's
\* branches.
C11_Original ==
    /\ ComposerViewsEmpty
    /\ lastOp = "regularizable" =>
          \A c \in ComposersBelow(arg) : \A k \in 1..Len(ret) : ret[k].owner \notin Branches(c)

\* C11 (amended): the three views of a fan-out or fan-in composer are empty,
\* however many parameters its children hold, and the regularizable view of a
\* module enclosing a composer holds a parameter of a module of that
\* composer's branches only when that module is also reached from the
\* enclosing module along children without passing through a composer.
C11_ComposerViews ==
    /\ ComposerViewsEmpty
    /\ lastOp = "regularizable" =>
          \A c \in ComposersBelow(arg) : \A k \in 1..Len(ret) :
              ret[k].owner \in Branches(c) => ret[k].owner \in Elements(Visited(arg))

\* A regularizable view read on a module with a weight of its own that
\* encloses a composer whose branches hold a weight that requires grad and are
\* reached through the composer only: the view holds the module's weight alone.
C11_Witness ==
    /\ lastOp = "regularizable"
    /\ objects[arg].class = "Module"
    /\ \E c \in ComposersBelow(arg) :
          /\ \E b \in Branches(c) : HasTrainableWeight(b)
          /\ Branches(c) \cap Elements(Visited(arg)) = {}
    /\ Len(ret) = 1
    /\ ret[1].owner = arg

====
